---- MODULE Spec2Model ----
(***************************************************************************)
(* Model of the AIS service: the collector (collector.go) that buffers     *)
(* decoded AIS messages and flushes them to timestamp-named Parquet files, *)
(* the date-range middleware and file resolution of the API (api.go), and  *)
(* the shutdown handshake of main (main.go).                               *)
(*                                                                         *)
(* Two goroutines touch the buffer: "ingest" (connectWebSocket ->          *)
(* handleAISMessage, which may call saveToParquet inline) and "sched"      *)
(* (the select loop of runCollector, which calls saveToParquet on every    *)
(* tick).  Each goroutine has a program counter; one action is one step    *)
(* between two points where the other goroutine can be observed.           *)
(***************************************************************************)
EXTENDS Integers, Sequences, FiniteSets, Bags, TLC

\* ------------------------------------------------------------------ bounds
\* Records accepted into the buffer in one run (the feed itself is endless).
MaxMsgs == 3
\* Seconds the wall clock advances in one run.
MaxNow == 1
\* I/O failures (writer creation, writer initialisation, record write,
\* finalisation) injected in one run.
MaxFaults == 1
\* Length of a calendar day in clock seconds (scaled down from 86400).
SecsPerDay == 1
\* Partition files present in the directory when a query run starts, and the
\* times of day their names can carry.
MaxDirFiles == 3
MaxDirTimes == 2

\* collector.go:26 (scaled down from 100000).
MaxRecordsPerFile == 2
\* The same capacity where the deciles of the fill level are looked at: large
\* enough for consecutive counts to fall into one decile.
ProgressCap == 12

\* ------------------------------------------------- calendar (package time)

IsLeap(y) == (y % 4 = 0 /\ y % 100 # 0) \/ y % 400 = 0

DaysInMonth(y, m) ==
    IF m = 2 THEN (IF IsLeap(y) THEN 29 ELSE 28)
    ELSE IF m \in {4, 6, 9, 11} THEN 30 ELSE 31

DaysInYear(y) == IF IsLeap(y) THEN 366 ELSE 365

\* A date text "YYYY-MM-DD" is the record of its three digit fields; any
\* other text has kind "garbage"; a query parameter that is not given has
\* kind "absent".
DateText(y, m, d) == [kind |-> "date", y |-> y, m |-> m, d |-> d]
Garbage == [kind |-> "garbage", y |-> 0, m |-> 0, d |-> 0]
Absent  == [kind |-> "absent", y |-> 0, m |-> 0, d |-> 0]

\* The date of clock second 0, and the year day numbers are counted from.
EpochText == DateText(2023, 8, 31)
BaseYear == EpochText.y

\* time.Parse("2006-01-02", s): the error result.
ParseFails(s) ==
    \/ s.kind # "date"
    \/ s.m \notin 1..12
    \/ s.d \notin 1..DaysInMonth(s.y, s.m)

RECURSIVE DaysBeforeYear(_)
DaysBeforeYear(y) ==
    IF y <= BaseYear THEN 0 ELSE DaysBeforeYear(y - 1) + DaysInYear(y - 1)

RECURSIVE DaysBeforeMonth(_, _)
DaysBeforeMonth(y, m) ==
    IF m <= 1 THEN 0 ELSE DaysBeforeMonth(y, m - 1) + DaysInMonth(y, m - 1)

\* time.Parse("2006-01-02", s): the instant, as days since BaseYear-01-01.
ParseDate(s) == DaysBeforeYear(s.y) + DaysBeforeMonth(s.y, s.m) + (s.d - 1)

RECURSIVE FormatFrom(_, _, _)
FormatFrom(y, m, n) ==
    IF n >= DaysInYear(y) /\ m = 1 THEN FormatFrom(y + 1, 1, n - DaysInYear(y))
    ELSE IF n >= DaysInMonth(y, m) THEN FormatFrom(y, m + 1, n - DaysInMonth(y, m))
    ELSE DateText(y, m, n + 1)

\* t.Format("2006-01-02") of the instant `day`.
FormatDate(day) == FormatFrom(BaseYear, 1, day)

\* d.AddDate(0, 0, 1)
AddDay(day) == day + 1

\* Mutants of After: the loop stops one day early; the loop runs one day on.
AfterOrEqual(d, end) == d >= end
AfterNextDay(d, end) == d > end + 1

\* d.After(end)
After(d, end) == d > end

\* The instant of clock second 0.
EpochDay == ParseDate(EpochText)

\* ------------------------------------------------------------- file names
\* "ais_data/<date>_<time>.parquet": the date text and the time of day.
PathOf(clock) ==
    [date |-> FormatDate(EpochDay + (clock \div SecsPerDay)),
     time |-> clock % SecsPerDay]

\* getNewFilePath at clock second `clock`.
getNewFilePath(clock) == PathOf(clock)

\* Lexicographic order of two file names (fixed-width, zero-padded fields).
NameLess(p, q) ==
    \/ p.date.y < q.date.y
    \/ p.date.y = q.date.y /\ p.date.m < q.date.m
    \/ p.date.y = q.date.y /\ p.date.m = q.date.m /\ p.date.d < q.date.d
    \/ p.date = q.date /\ p.time < q.time

\* ---------------------------------------------------------------- messages
\* A raw message: its bytes (raw) and what json.Unmarshal makes of them.
\* json = "object" when the bytes are a JSON object; Message, PositionReport
\* say whether that key holds an object; UserIDType is the JSON type of the
\* value under UserID and UserID its value when that is a number.
Msg(raw, json, message, pos, uidType, uid) ==
    [raw |-> raw, json |-> json, Message |-> message, PositionReport |-> pos,
     UserIDType |-> uidType, UserID |-> uid]

GoodMsgs ==
    { Msg("a", "object", "object", "object", "number", 111111111) }

BadMsgs ==
    { Msg("w", "invalid", "absent", "absent", "absent", 0),
      Msg("x", "object", "absent", "absent", "absent", 0),
      Msg("y", "object", "object", "scalar", "absent", 0),
      Msg("z", "object", "object", "object", "string", 0) }

Messages == GoodMsgs \cup BadMsgs

\* json.Unmarshal(message, &data) returns an error.
UnmarshalFails(m) == m.json # "object"

\* fmt.Sprintf("%.0f", mmsi)
FormatMMSI(n) == ToString(n)

\* Mutant of extractMMSI: the type of UserID is not checked.
extractMMSIUnchecked(m) ==
    IF m.Message # "object" THEN ""
    ELSE IF m.PositionReport # "object" THEN ""
    ELSE FormatMMSI(m.UserID)

\* extractMMSI(data): "" when a level is missing or UserID is no number.
extractMMSI(m) ==
    IF m.Message # "object" THEN ""
    ELSE IF m.PositionReport # "object" THEN ""
    ELSE IF m.UserIDType # "number" THEN ""
    ELSE FormatMMSI(m.UserID)

\* The AISRecord built for message m at clock second `clock`.
AISRecord(m, clock) ==
    [Timestamp |-> clock, MMSI |-> extractMMSI(m), RawJSON |-> m.raw]

\* ------------------------------------------------------------------- state
VARIABLES
    aisRecords,      \* collector.go:44  the in-memory buffer
    recordCount,     \* collector.go:31
    lastLogPercent,  \* collector.go:32
    mu,              \* collector.go:30  "free", or the goroutine holding it
    pc,              \* position of the goroutines "ingest" and "sched"
    record,          \* handleAISMessage: the record built at lines 138-142
    currentFile,     \* saveToParquet: its local currentFile, per goroutine
    files,           \* directory ais_data: path -> content of the file
    now,             \* wall clock, in seconds
    ctxDone,         \* main.go:42  the signal context is cancelled
    mainpc,          \* position of main
    message,         \* handleAISMessage: its parameter, while it decodes
    faults,          \* I/O failures so far
    appended,        \* history: the bag of all records appended to the buffer
    clean,           \* history: no timer flush and no I/O failure since the
                     \*          buffer was last empty
    created,         \* history: files created since the buffer was last reset
    genWrites,       \* history: flushes that wrote the current generation
    genFails,        \* history: of those, the ones whose finalisation failed
    atShutdown,      \* history: the buffer as it was when the signal came
    logged,          \* history: the deciles the progress log has reported
                     \*          since the buffer was last reset
    req              \* the API request being served

bufferVars == <<aisRecords, recordCount, lastLogPercent>>
historyVars ==
    <<appended, clean, created, genWrites, genFails, atShutdown, logged>>
collectorVars ==
    <<aisRecords, recordCount, lastLogPercent, mu, pc, record, currentFile,
      ctxDone, mainpc, message, faults, appended, clean, created,
      genWrites, genFails, atShutdown, logged>>
vars ==
    <<aisRecords, recordCount, lastLogPercent, mu, pc, record, currentFile,
      files, now, ctxDone, mainpc, message, faults, appended, clean,
      created, genWrites, genFails, atShutdown, logged, req>>

Procs == {"ingest", "sched"}

NoRecord == [Timestamp |-> 0, MMSI |-> "", RawJSON |-> ""]
NoPath == [date |-> Absent, time |-> 0]
NoMessage == Msg("", "invalid", "absent", "absent", "absent", 0)

\* A file right after os.Create: no rows, no footer.  `lost` is history: the
\* number of records of the flushed buffer that the write loop left out.
EmptyFile == [rows |-> <<>>, footer |-> FALSE, lost |-> 0]

\* Where saveToParquet returns to: the read loop of connectWebSocket, or the
\* select of runCollector.
Ret(p) == IF p = "ingest" THEN "recv" ELSE "wait"

\* The positions of saveToParquet between mu.Lock() and the deferred Unlock.
FlushPcs == {"save_open", "save_write", "save_stop"}
InFlush(p) == pc[p] \in FlushPcs

\* The process runs until main returns.
Running == mainpc # "stopped"

\* No request is being served.
IdleReq ==
    [pc |-> "idle", fromStr |-> Absent, toStr |-> Absent, d |-> 0, end |-> 0,
     files |-> <<>>, globs |-> 0, outcome |-> "none", ctxSet |-> FALSE,
     ctxFiles |-> <<>>, handler |-> "none", fromParam |-> Absent,
     toParam |-> Absent]

CollectorInit ==
    /\ aisRecords = <<>>
    /\ recordCount = 0
    /\ lastLogPercent = 0
    /\ mu = "free"
    /\ pc = [p \in Procs |-> Ret(p)]
    /\ record = NoRecord
    /\ currentFile = [p \in Procs |-> NoPath]
    /\ ctxDone = FALSE
    /\ mainpc = "await_ctx"
    /\ message = NoMessage
    /\ faults = 0
    /\ appended = EmptyBag
    /\ clean = TRUE
    /\ created = 0
    /\ genWrites = 0
    /\ genFails = 0
    /\ atShutdown = <<>>
    /\ logged = {}

Init ==
    /\ CollectorInit
    /\ files = [q \in {} |-> EmptyFile]
    /\ now = 0
    /\ req = IdleReq

\* ------------------------------------------------------- handleAISMessage
\* collector.go:127-136: the message decodes to a record.
Decodes(m) == ~UnmarshalFails(m) /\ extractMMSI(m) # ""

\* collector.go:107-113: the read loop hands the next message to
\* handleAISMessage.
Receive(m) ==
    /\ Running
    /\ pc["ingest"] = "recv"
    /\ BagCardinality(appended) < MaxMsgs
    /\ message' = m
    /\ pc' = [pc EXCEPT !["ingest"] = "decode"]
    /\ UNCHANGED <<bufferVars, mu, record, currentFile, files, now, ctxDone,
                   mainpc, faults, historyVars, req>>

\* collector.go:126-142: handleAISMessage returns at once when the message
\* does not decode, and otherwise builds the record and goes on to mu.Lock().
Decode ==
    /\ Running
    /\ pc["ingest"] = "decode"
    /\ IF Decodes(message)
       THEN /\ record' = AISRecord(message, now)
            /\ pc' = [pc EXCEPT !["ingest"] = "lock"]
       ELSE /\ record' = record
            /\ pc' = [pc EXCEPT !["ingest"] = "recv"]
    /\ message' = NoMessage
    /\ UNCHANGED <<bufferVars, mu, currentFile, files, now, ctxDone, mainpc,
                   faults, historyVars, req>>

\* Mutant of MutexFree: Lock() never waits.
MutexFreeAlways == TRUE

\* sync.Mutex: Lock() returns only when nobody holds the mutex.
MutexFree == mu = "free"

\* collector.go:144
IngestLock ==
    /\ Running
    /\ pc["ingest"] = "lock"
    /\ MutexFree
    /\ mu' = "ingest"
    /\ pc' = [pc EXCEPT !["ingest"] = "append"]
    /\ UNCHANGED <<bufferVars, record, currentFile, files, now, ctxDone,
                   mainpc, message, faults, historyVars, req>>

\* Mutant of IngestAppend: the mutex is released between the append and
\* the increment of the count.
IngestAppendUnlocks ==
    /\ Running
    /\ pc["ingest"] = "append"
    /\ aisRecords' = Append(aisRecords, record)
    /\ appended' = appended (+) SetToBag({record})
    /\ record' = NoRecord
    /\ mu' = "free"
    /\ pc' = [pc EXCEPT !["ingest"] = "count"]
    /\ UNCHANGED <<recordCount, lastLogPercent, currentFile, files,
                   now, ctxDone, mainpc, message, faults, clean,
                   created, genWrites, genFails, atShutdown, logged,
                   req>>

\* collector.go:145
IngestAppend ==
    /\ Running
    /\ pc["ingest"] = "append"
    /\ aisRecords' = Append(aisRecords, record)
    /\ appended' = appended (+) SetToBag({record})
    /\ record' = NoRecord
    /\ pc' = [pc EXCEPT !["ingest"] = "count"]
    /\ UNCHANGED <<recordCount, lastLogPercent, mu, currentFile, files,
                   now, ctxDone, mainpc, message, faults, clean,
                   created, genWrites, genFails, atShutdown, logged,
                   req>>

\* collector.go:146-147
IngestCount ==
    /\ Running
    /\ pc["ingest"] = "count"
    /\ recordCount' = recordCount + 1
    /\ mu' = "free"
    /\ pc' = [pc EXCEPT !["ingest"] = "progress"]
    /\ UNCHANGED <<aisRecords, lastLogPercent, record, currentFile, files, now,
                   ctxDone, mainpc, message, faults, historyVars, req>>

\* collector.go:150, for a capacity of cap records.
PercentOf(count, cap) == (count * 100) \div cap

\* collector.go:150
currentPercent == PercentOf(recordCount, MaxRecordsPerFile)

\* Mutant of DecileDiffers: any change of the percentage counts.
PercentDiffers(cur, last) == cur # last

\* collector.go:151
DecileDiffers(cur, last) == cur \div 10 # last \div 10

\* collector.go:151
DecileChanged == DecileDiffers(currentPercent, lastLogPercent)

\* collector.go:150-154, reading recordCount without the mutex.
IngestProgress ==
    /\ Running
    /\ pc["ingest"] = "progress"
    /\ lastLogPercent' = IF DecileChanged THEN currentPercent ELSE lastLogPercent
    /\ logged' = IF DecileChanged THEN logged \cup {currentPercent \div 10}
                 ELSE logged
    /\ pc' = [pc EXCEPT !["ingest"] = "capacity"]
    /\ UNCHANGED <<aisRecords, recordCount, mu, record, currentFile, files, now,
                   ctxDone, mainpc, message, faults, appended, clean, created,
                   genWrites, genFails, atShutdown, req>>

\* Mutant of CapacityReached: only the exact threshold starts the flush.
CapacityReachedExactly == recordCount = MaxRecordsPerFile

\* Mutant of CapacityReached: the flush starts one record late.
CapacityReachedLate == recordCount > MaxRecordsPerFile

\* collector.go:157
CapacityReached == recordCount >= MaxRecordsPerFile

\* collector.go:157-159, reading recordCount without the mutex.
IngestCapacity ==
    /\ Running
    /\ pc["ingest"] = "capacity"
    /\ pc' = [pc EXCEPT !["ingest"] =
                 IF CapacityReached THEN "save_lock" ELSE "recv"]
    /\ UNCHANGED <<bufferVars, mu, record, currentFile, files, now, ctxDone,
                   mainpc, message, faults, historyVars, req>>

\* ----------------------------------------------------------- saveToParquet
\* Mutant of BufferEmpty: every buffer is taken for empty.
BufferEmptyAlways == recordCount >= 0

\* Mutant of BufferEmpty: the empty buffer is not recognised.
BufferEmptyNever == recordCount < 0

\* collector.go:189
BufferEmpty == recordCount = 0

\* Mutant of ReturnEarly: a return on error drops the buffer.
ReturnEarlyDiscard(p) ==
    /\ mu' = "free"
    /\ pc' = [pc EXCEPT ![p] = Ret(p)]
    /\ currentFile' = [currentFile EXCEPT ![p] = NoPath]
    /\ aisRecords' = <<>>
    /\ recordCount' = 0

\* Mutant of ReturnEarly: the return leaves the mutex locked.
ReturnEarlyKeepsLock(p) ==
    /\ mu' = p
    /\ pc' = [pc EXCEPT ![p] = Ret(p)]
    /\ currentFile' = [currentFile EXCEPT ![p] = NoPath]
    /\ UNCHANGED <<aisRecords, recordCount>>

\* collector.go:187, 191, 201, 207, 219: a return of saveToParquet before the
\* reset of line 232; the deferred mu.Unlock() runs, the buffer is as it was.
ReturnEarly(p) ==
    /\ mu' = "free"
    /\ pc' = [pc EXCEPT ![p] = Ret(p)]
    /\ currentFile' = [currentFile EXCEPT ![p] = NoPath]
    /\ UNCHANGED <<aisRecords, recordCount>>

\* collector.go:186-195: mu.Lock(), then either the return of line 191 (with
\* its deferred Unlock) or the file name of line 194.
SaveBegin(p) ==
    /\ Running
    /\ pc[p] = "save_lock"
    /\ MutexFree
    /\ IF BufferEmpty
       THEN ReturnEarly(p)
       ELSE /\ mu' = p
            /\ currentFile' = [currentFile EXCEPT ![p] = getNewFilePath(now)]
            /\ pc' = [pc EXCEPT ![p] = "save_open"]
            /\ UNCHANGED <<aisRecords, recordCount>>
    /\ clean' = (clean /\ p # "sched")
    /\ UNCHANGED <<lastLogPercent, record, files, now, ctxDone, mainpc,
                   message, faults, appended, created, genWrites,
                   genFails, atShutdown, logged,
                   req>>

\* The outcomes of lines 198-209: both writers are set up, or (while the
\* run's failure budget lasts) NewLocalFileWriter or NewParquetWriter
\* returns an error.
OpenOutcomes ==
    IF faults < MaxFaults THEN {"ok", "file_error", "writer_error"} ELSE {"ok"}

\* The outcomes of a single call that can fail (pw.WriteStop).
Outcomes == IF faults < MaxFaults THEN {TRUE, FALSE} ELSE {TRUE}

\* collector.go:198: local.NewLocalFileWriter opens the path with os.Create,
\* which creates the file or truncates the one that is there.
CreateFile(path) ==
    [q \in DOMAIN files \cup {path} |-> IF q = path THEN EmptyFile ELSE files[q]]

\* collector.go:198-209
SaveOpen(p) ==
    /\ Running
    /\ pc[p] = "save_open"
    /\ \E out \in OpenOutcomes :
          /\ files' = IF out = "file_error" THEN files
                      ELSE CreateFile(currentFile[p])
          /\ created' = IF out = "file_error" THEN created ELSE created + 1
          /\ IF out = "ok"
             THEN /\ pc' = [pc EXCEPT ![p] = "save_write"]
                  /\ UNCHANGED <<aisRecords, recordCount, mu, currentFile,
                                 faults, clean>>
             ELSE /\ ReturnEarly(p)
                  /\ faults' = faults + 1
                  /\ clean' = FALSE
    /\ UNCHANGED <<lastLogPercent, record, now, ctxDone, mainpc, message,
                   appended, genWrites, genFails, atShutdown, logged,
                   req>>

\* Mutant of WrittenRows: the rows are written last record first.
RECURSIVE WrittenBackwards(_, _)
WrittenBackwards(recs, bad) ==
    IF recs = <<>> THEN <<>>
    ELSE (IF Len(recs) \in bad THEN <<>> ELSE <<recs[Len(recs)]>>)
             \o WrittenBackwards(SubSeq(recs, 1, Len(recs) - 1), bad)

RECURSIVE WrittenFrom(_, _, _)
WrittenFrom(recs, bad, i) ==
    IF i > Len(recs) THEN <<>>
    ELSE (IF i \in bad THEN <<>> ELSE <<recs[i]>>) \o WrittenFrom(recs, bad, i + 1)

\* collector.go:212-216: every record is handed to pw.Write in buffer order;
\* a record whose Write returns an error is logged and the loop goes on.
\* `bad` holds the positions whose Write fails.
WrittenRows(recs, bad) == WrittenFrom(recs, bad, 1)

\* collector.go:211-216
SaveWrite(p) ==
    /\ Running
    /\ pc[p] = "save_write"
    /\ \E bad \in SUBSET (1..Len(aisRecords)) :
          /\ Cardinality(bad) <= MaxFaults - faults
          /\ files' = [files EXCEPT ![currentFile[p]] =
                          [rows |-> WrittenRows(aisRecords, bad),
                           footer |-> FALSE, lost |-> Cardinality(bad)]]
          /\ faults' = faults + Cardinality(bad)
          /\ clean' = (clean /\ bad = {})
    /\ genWrites' = genWrites + 1
    /\ pc' = [pc EXCEPT ![p] = "save_stop"]
    /\ UNCHANGED <<bufferVars, mu, record, currentFile, now, ctxDone, mainpc,
                   message, appended, created, genFails, atShutdown, logged,
                   req>>

\* collector.go:217-235
SaveStop(p) ==
    /\ Running
    /\ pc[p] = "save_stop"
    /\ \E ok \in Outcomes :
          IF ok
          THEN /\ files' = [files EXCEPT ![currentFile[p]].footer = TRUE]
               /\ aisRecords' = <<>>
               /\ recordCount' = 0
               /\ mu' = "free"
               /\ pc' = [pc EXCEPT ![p] = Ret(p)]
               /\ currentFile' = [currentFile EXCEPT ![p] = NoPath]
               /\ clean' = TRUE
               /\ created' = 0
               /\ genWrites' = 0
               /\ genFails' = 0
               /\ logged' = {}
               /\ UNCHANGED faults
          ELSE /\ ReturnEarly(p)
               /\ faults' = faults + 1
               /\ clean' = FALSE
               /\ genFails' = genFails + 1
               /\ UNCHANGED <<files, created, genWrites, logged>>
    /\ UNCHANGED <<lastLogPercent, record, now, ctxDone, mainpc, message,
                   appended, atShutdown, req>>

\* ------------------------------------------------------ runCollector, main
\* collector.go:70-71: the ticker fires and the loop calls saveToParquet.
TimerFire ==
    /\ Running
    /\ pc["sched"] = "wait"
    /\ pc' = [pc EXCEPT !["sched"] = "save_lock"]
    /\ clean' = FALSE
    /\ UNCHANGED <<bufferVars, mu, record, currentFile, files, now, ctxDone,
                   mainpc, message, faults, appended, created,
                   genWrites, genFails, atShutdown, logged,
                   req>>

\* collector.go:67-69 and main.go:69: runCollector returns, done is closed.
CollectorStop ==
    /\ Running
    /\ pc["sched"] = "wait"
    /\ ctxDone
    /\ pc' = [pc EXCEPT !["sched"] = "stopped"]
    /\ UNCHANGED <<bufferVars, mu, record, currentFile, files, now, ctxDone,
                   mainpc, message, faults, historyVars, req>>

\* main.go:42: SIGINT or SIGTERM cancels the context.
Signal ==
    /\ Running
    /\ ~ctxDone
    /\ ctxDone' = TRUE
    /\ atShutdown' = aisRecords
    /\ UNCHANGED <<bufferVars, mu, pc, record, currentFile, files, now, mainpc,
                   message, faults, appended, clean, created, genWrites,
                   genFails, logged, req>>

\* main.go:82-83
MainShutdown ==
    /\ mainpc = "await_ctx"
    /\ ctxDone
    /\ mainpc' = "await_done"
    /\ UNCHANGED <<bufferVars, mu, pc, record, currentFile, files, now, ctxDone,
                   message, faults, historyVars, req>>

\* Mutant of MainStop: main also waits for the read loop to end.
MainStopWaitsIngest ==
    /\ mainpc = "await_done"
    /\ pc["sched"] = "stopped"
    /\ pc["ingest"] = "stopped"
    /\ mainpc' = "stopped"
    /\ UNCHANGED <<bufferVars, mu, pc, record, currentFile, files, now, ctxDone,
                   message, faults, historyVars, req>>

\* main.go:86-88: done is closed; main returns and the process ends.
MainStop ==
    /\ mainpc = "await_done"
    /\ pc["sched"] = "stopped"
    /\ mainpc' = "stopped"
    /\ UNCHANGED <<bufferVars, mu, pc, record, currentFile, files, now, ctxDone,
                   message, faults, historyVars, req>>

\* The wall clock advances by one second.
Tick ==
    /\ Running
    /\ now < MaxNow
    /\ now' = now + 1
    /\ UNCHANGED <<collectorVars, files, req>>

\* -------------------------------------------- middlewareDateRange (api.go)
\* Mutant of DefaultQuery: a key that is not given yields today's date.
DefaultQueryToday(param, def) ==
    IF param.kind = "absent"
    THEN FormatDate(EpochDay + (now \div SecsPerDay)) ELSE param

\* gin's c.DefaultQuery(key, def): def when the key is not in the query.
DefaultQuery(param, def) == IF param.kind = "absent" THEN def ELSE param

\* api.go:78: time.Now().UTC().Format(layout)
Today == FormatDate(EpochDay + (now \div SecsPerDay))

RECURSIVE SortNames(_)
SortNames(S) ==
    IF S = {} THEN <<>>
    ELSE LET first == CHOOSE p \in S : \A q \in S \ {p} : NameLess(p, q)
         IN  <<first>> \o SortNames(S \ {first})

\* api.go:121-122: filepath.Glob("ais_data/<date>_*.parquet"), the names of
\* the directory that carry the date prefix, in sorted order.
Glob(dateText) == SortNames({q \in DOMAIN files : q.date = dateText})

\* api.go:78-93 and 117-118: the parameters are read and parsed; a parse
\* error aborts with 400, otherwise getFilePaths starts its loop at `from`.
ReqStart(f, t) ==
    /\ req.pc = "idle"
    /\ LET fromStr == DefaultQuery(f, Today)
           toStr == DefaultQuery(t, fromStr)
       IN  IF ParseFails(fromStr) \/ ParseFails(toStr)
           THEN req' = [IdleReq EXCEPT !.pc = "done", !.fromStr = fromStr,
                                       !.toStr = toStr,
                                       !.fromParam = f, !.toParam = t,
                                       !.outcome = "bad_request"]
           ELSE req' = [IdleReq EXCEPT !.pc = "glob", !.fromStr = fromStr,
                                       !.toStr = toStr,
                                       !.fromParam = f, !.toParam = t,
                                       !.d = ParseDate(fromStr),
                                       !.end = ParseDate(toStr)]
    /\ UNCHANGED <<collectorVars, files, now>>

\* Mutant of ReqGlob: a round of the loop waits for the buffer mutex.
ReqGlobLocked ==
    /\ req.pc = "glob"
    /\ ~After(req.d, req.end)
    /\ MutexFree
    /\ req' = [req EXCEPT !.files = req.files \o Glob(FormatDate(req.d)),
                          !.globs = req.globs + 1,
                          !.d = AddDay(req.d)]
    /\ UNCHANGED <<collectorVars, files, now>>

\* api.go:120-124: one round of the loop of getFilePaths.
ReqGlob ==
    /\ req.pc = "glob"
    /\ ~After(req.d, req.end)
    /\ req' = [req EXCEPT !.files = req.files \o Glob(FormatDate(req.d)),
                          !.globs = req.globs + 1,
                          !.d = AddDay(req.d)]
    /\ UNCHANGED <<collectorVars, files, now>>

\* Mutant of NoFiles: an empty list is not recognised.
NoFilesNever(fs) == Len(fs) < 0

\* api.go:96
NoFiles(fs) == Len(fs) = 0

\* api.go:120, 126 and 96-108: the loop ends, getFilePaths returns; an empty
\* list aborts with 404, otherwise the list is stored in the context with
\* c.Set and c.Next() calls the handler of the route.
ReqFinish ==
    /\ req.pc = "glob"
    /\ After(req.d, req.end)
    /\ IF NoFiles(req.files)
       THEN req' = [req EXCEPT !.pc = "done", !.outcome = "not_found"]
       ELSE req' = [req EXCEPT !.pc = "handler", !.outcome = "next",
                               !.ctxSet = TRUE, !.ctxFiles = req.files]
    /\ UNCHANGED <<collectorVars, files, now>>

\* api.go:38-50: the routes and their handlers.
Handlers == {"getShipData", "getUniqueMMSI", "getLatestAllShips", "getStats"}

\* api.go:137, 171: the handler of the route runs inside c.Next() and takes
\* the file list from the context with c.MustGet("files").
ReqHandler(h) ==
    /\ req.pc = "handler"
    /\ req' = [req EXCEPT !.pc = "done", !.handler = h]
    /\ UNCHANGED <<collectorVars, files, now>>

\* The response is sent; the server takes the next request.
ReqEnd ==
    /\ req.pc = "done"
    /\ req' = IdleReq
    /\ UNCHANGED <<collectorVars, files, now>>

Next ==
    \/ \E m \in Messages : Receive(m)
    \/ Decode
    \/ IngestLock
    \/ IngestAppend
    \/ IngestCount
    \/ IngestProgress
    \/ IngestCapacity
    \/ \E p \in Procs : SaveBegin(p)
    \/ \E p \in Procs : SaveOpen(p)
    \/ \E p \in Procs : SaveWrite(p)
    \/ \E p \in Procs : SaveStop(p)
    \/ TimerFire
    \/ Tick

\* The collector at work: ingestion, the two flush triggers, the clock.
Spec == Init /\ [][Next]_vars

\* ------------------------------------------ the collector with its shutdown
NextShutdown ==
    \/ \E m \in Messages : Receive(m)
    \/ Decode
    \/ IngestLock
    \/ IngestAppend
    \/ IngestCount
    \/ IngestProgress
    \/ IngestCapacity
    \/ \E p \in Procs : SaveBegin(p)
    \/ \E p \in Procs : SaveOpen(p)
    \/ \E p \in Procs : SaveWrite(p)
    \/ \E p \in Procs : SaveStop(p)
    \/ TimerFire
    \/ CollectorStop
    \/ Signal
    \/ MainShutdown
    \/ MainStop
    \/ Tick

\* The collector from its start to the return of main.
SpecShutdown == Init /\ [][NextShutdown]_vars

\* The steps of the ingestion goroutine once it has a message.
IngestSteps ==
    \/ Decode
    \/ IngestLock
    \/ IngestAppend
    \/ IngestCount
    \/ IngestProgress
    \/ IngestCapacity
    \/ SaveBegin("ingest")
    \/ SaveOpen("ingest")
    \/ SaveWrite("ingest")
    \/ SaveStop("ingest")

\* The steps of a saveToParquet called by runCollector.
SchedFlushSteps ==
    \/ SaveBegin("sched")
    \/ SaveOpen("sched")
    \/ SaveWrite("sched")
    \/ SaveStop("sched")

\* The steps of main after it has started the goroutines.
MainSteps == MainShutdown \/ MainStop

\* Scheduling.  A goroutine that can take its next step takes it, a call of
\* an I/O routine returns, and a mu.Lock() returns once the mutex stays free
\* (weak fairness, per goroutine); no message need arrive and the ticker
\* need not fire.  The select of runCollector picks at random among its
\* ready cases, so with ctx.Done() ready again and again it picks it
\* (strong fairness).
FairScheduling ==
    /\ WF_vars(IngestSteps)
    /\ WF_vars(SchedFlushSteps)
    /\ WF_vars(MainSteps)
    /\ SF_vars(CollectorStop)

\* The collector and its shutdown within one clock second, fairly scheduled.
NextStopping ==
    \/ \E m \in Messages : Receive(m)
    \/ Decode
    \/ IngestLock
    \/ IngestAppend
    \/ IngestCount
    \/ IngestProgress
    \/ IngestCapacity
    \/ \E p \in Procs : SaveBegin(p)
    \/ \E p \in Procs : SaveOpen(p)
    \/ \E p \in Procs : SaveWrite(p)
    \/ \E p \in Procs : SaveStop(p)
    \/ TimerFire
    \/ CollectorStop
    \/ Signal
    \/ MainShutdown
    \/ MainStop

SpecStopping == Init /\ [][NextStopping]_vars /\ FairScheduling

\* ------------------------------------------------ the query path on its own
\* The days whose partitions the directory can hold, and the names.
DirDays == (EpochDay - 1)..(EpochDay + 2)
DirPaths ==
    {[date |-> FormatDate(d), time |-> t] : d \in DirDays, t \in 0..(MaxDirTimes - 1)}

\* A partition as a successful flush leaves it.
SamplePartition ==
    [rows |-> <<AISRecord(CHOOSE m \in GoodMsgs : TRUE, 0)>>, footer |-> TRUE,
     lost |-> 0]

\* The values the query parameters from and to take.
QueryTexts ==
    {Absent, Garbage, DateText(2023, 9, 31), DateText(2023, 13, 1)}
        \cup {FormatDate(d) : d \in DirDays}

InitQuery ==
    /\ CollectorInit
    /\ \E D \in SUBSET DirPaths :
          /\ Cardinality(D) <= MaxDirFiles
          /\ files = [q \in D |-> SamplePartition]
    /\ now \in 0..MaxNow
    /\ req = IdleReq

NextQuery ==
    \/ \E f \in QueryTexts, t \in QueryTexts : ReqStart(f, t)
    \/ ReqGlob
    \/ ReqFinish
    \/ \E h \in Handlers : ReqHandler(h)
    \/ ReqEnd

SpecQuery == InitQuery /\ [][NextQuery]_vars

\* ------------------------------- the collector and the API, side by side
\* The values from and to take in requests served while the collector runs:
\* not given (today), or the day the run starts on.
ServeTexts == {Absent, EpochText}

NextServe ==
    \/ \E m \in Messages : Receive(m)
    \/ Decode
    \/ IngestLock
    \/ IngestAppend
    \/ IngestCount
    \/ IngestProgress
    \/ IngestCapacity
    \/ \E p \in Procs : SaveBegin(p)
    \/ \E p \in Procs : SaveOpen(p)
    \/ \E p \in Procs : SaveWrite(p)
    \/ \E p \in Procs : SaveStop(p)
    \/ TimerFire
    \/ \E f \in ServeTexts, t \in ServeTexts : ReqStart(f, t)
    \/ ReqGlob
    \/ ReqFinish
    \/ \E h \in Handlers : ReqHandler(h)
    \/ ReqEnd

\* Requests are served while the collector ingests and flushes, all within
\* one clock second.
SpecServe == Init /\ [][NextServe]_vars

\* ------------------------------------- ingestion of a mixed feed, one second
\* A second valid payload, of another ship.
SecondMsg == Msg("b", "object", "object", "object", "number", 222222222)

\* The feed of the end-to-end scenario: two valid payloads with different
\* identifiers and one without PositionReport.
ScenarioMsgs ==
    GoodMsgs \cup {SecondMsg} \cup {m \in BadMsgs : m.raw = "y"}

\* Everything happens within one clock second: the records differ by their
\* payload, not by their timestamp.
NextScenario ==
    \/ \E m \in ScenarioMsgs : Receive(m)
    \/ Decode
    \/ IngestLock
    \/ IngestAppend
    \/ IngestCount
    \/ IngestProgress
    \/ IngestCapacity
    \/ \E p \in Procs : SaveBegin(p)
    \/ \E p \in Procs : SaveOpen(p)
    \/ \E p \in Procs : SaveWrite(p)
    \/ \E p \in Procs : SaveStop(p)
    \/ TimerFire

SpecScenario == Init /\ [][NextScenario]_vars

\* ------------------------------------------- the fill level and its report
\* The counters of the buffer at capacity ProgressCap.  One step is one
\* critical section or one unsynchronised read; a saveToParquet is a single
\* step, since it holds the mutex from its first to its last access and the
\* reads of the counters see the buffer before or after it.  All records
\* are alike; of the history only `logged` is kept.
ProgressRecord == AISRecord(CHOOSE m \in GoodMsgs : TRUE, 0)

\* collector.go:144-147: the record is appended and counted under the mutex.
ProgressAppend ==
    /\ pc["ingest"] = "recv"
    /\ MutexFree
    /\ aisRecords' = Append(aisRecords, ProgressRecord)
    /\ recordCount' = recordCount + 1
    /\ pc' = [pc EXCEPT !["ingest"] = "progress"]
    /\ UNCHANGED <<lastLogPercent, mu, record, currentFile, files, now,
                   ctxDone, mainpc, message, faults, historyVars, req>>

\* collector.go:150-154, reading recordCount without the mutex.
ProgressCheck ==
    /\ pc["ingest"] = "progress"
    /\ LET cur == PercentOf(recordCount, ProgressCap)
       IN  IF DecileDiffers(cur, lastLogPercent)
           THEN /\ lastLogPercent' = cur
                /\ logged' = logged \cup {cur \div 10}
           ELSE UNCHANGED <<lastLogPercent, logged>>
    /\ pc' = [pc EXCEPT !["ingest"] = "capacity"]
    /\ UNCHANGED <<aisRecords, recordCount, mu, record, currentFile, files, now,
                   ctxDone, mainpc, message, faults, appended, clean, created,
                   genWrites, genFails, atShutdown, req>>

\* collector.go:184-235 in one step: nothing on an empty buffer; otherwise
\* the file is written and the buffer reset, or (while the failure budget
\* lasts) the file cannot be created and the buffer stays.
ProgressFlush ==
    /\ MutexFree
    /\ IF BufferEmpty
       THEN UNCHANGED <<aisRecords, recordCount, files, faults, logged>>
       ELSE \E ok \in Outcomes :
               IF ok
               THEN /\ files' =
                         [q \in DOMAIN files \cup {getNewFilePath(now)} |->
                             IF q = getNewFilePath(now)
                             THEN [rows |-> aisRecords, footer |-> TRUE,
                                   lost |-> 0]
                             ELSE files[q]]
                    /\ aisRecords' = <<>>
                    /\ recordCount' = 0
                    /\ logged' = {}
                    /\ UNCHANGED faults
               ELSE /\ faults' = faults + 1
                    /\ UNCHANGED <<aisRecords, recordCount, files, logged>>
    /\ UNCHANGED <<lastLogPercent, mu, record, currentFile, now, ctxDone,
                   mainpc, message, appended, clean, created, genWrites,
                   genFails, atShutdown, req>>

\* collector.go:157-159, reading recordCount without the mutex, with the
\* saveToParquet it calls.
ProgressCapacity ==
    /\ pc["ingest"] = "capacity"
    /\ IF recordCount >= ProgressCap
       THEN ProgressFlush
       ELSE UNCHANGED <<bufferVars, mu, record, currentFile, files, now,
                        ctxDone, mainpc, message, faults, historyVars, req>>
    /\ pc' = [pc EXCEPT !["ingest"] = "recv"]

\* collector.go:70-71: the ticker fires and the loop calls saveToParquet.
ProgressTimer ==
    /\ pc["sched"] = "wait"
    /\ ProgressFlush
    /\ UNCHANGED pc

NextProgress ==
    \/ ProgressAppend
    \/ ProgressCheck
    \/ ProgressCapacity
    \/ ProgressTimer

SpecProgress == Init /\ [][NextProgress]_vars

\* ---------------------------------------- the collector at work, scheduled
\* The mixed feed within one clock second, with the goroutines scheduled
\* fairly and the ticker firing again and again (time.Ticker); no message
\* need arrive.
SpecLive ==
    /\ Init
    /\ [][NextScenario]_vars
    /\ WF_vars(IngestSteps)
    /\ WF_vars(SchedFlushSteps)
    /\ WF_vars(TimerFire)

\* ================================================================== claims
RECURSIVE SeqToBag(_)
SeqToBag(q) ==
    IF q = <<>> THEN EmptyBag ELSE SetToBag({Head(q)}) (+) SeqToBag(Tail(q))

RECURSIVE RowsOf(_)
\* The bag of the rows of the files named in S.
RowsOf(S) ==
    IF S = {} THEN EmptyBag
    ELSE LET f == CHOOSE f \in S : TRUE
         IN  SeqToBag(files[f].rows) (+) RowsOf(S \ {f})

\* The partitions produced so far: the files a flush has finalised.
Partitions == {f \in DOMAIN files : files[f].footer}

NoFlushInProgress == \A p \in Procs : ~InFlush(p)

\* The path is the target of a flush that has not returned yet.
BeingWritten(f) == \E p \in Procs : InFlush(p) /\ currentFile[p] = f

\* C1: whenever no flush is in progress, the rows of all partitions together
\* with the records in the buffer are exactly the records appended so far,
\* each as often as it was appended.
C1_NoLossNoDuplication ==
    NoFlushInProgress =>
        RowsOf(Partitions) (+) SeqToBag(aisRecords) = appended

\* At most one goroutine is inside saveToParquet's critical section, and it
\* holds the mutex.
OneFlushAtATime ==
    /\ \A p \in Procs : InFlush(p) => mu = p
    /\ \A p, q \in Procs : InFlush(p) /\ InFlush(q) => p = q

C3_EmptyFlushIsNoop ==
    [][ /\ \A p \in Procs :
              (pc[p] = "save_lock" /\ pc'[p] # "save_lock" /\ recordCount = 0)
                  => /\ pc'[p] = Ret(p)
                     /\ mu' = "free"
                     /\ files' = files
                     /\ aisRecords' = aisRecords
                     /\ recordCount' = 0
        /\ \A p \in Procs : InFlush(p)' => recordCount' > 0 ]_vars

\* C3 witness: a flush is invoked on an empty buffer (here the capacity
\* flush, after the timer flush emptied the buffer) with partitions present.
C3_Witness ==
    /\ pc["ingest"] = "save_lock"
    /\ mu = "free"
    /\ recordCount = 0
    /\ Partitions # {}

\* C4: from an empty buffer, with no timer flush and no I/O failure since
\* (clean), the buffer never exceeds MaxRecordsPerFile, no file is created
\* before it holds MaxRecordsPerFile records, the next message is read only
\* after the capacity flush, and the capacity flush that succeeds has
\* created exactly one file, which holds exactly the buffered records in
\* buffer order, and leaves the buffer empty.
C4_CapacityFlush ==
    [][ clean =>
          /\ Len(aisRecords) <= MaxRecordsPerFile
          /\ Len(aisRecords) < MaxRecordsPerFile => created = 0
          /\ pc["ingest"] \in {"recv", "decode", "lock"}
                => Len(aisRecords) < MaxRecordsPerFile
          /\ (pc["ingest"] = "save_stop" /\ pc'["ingest"] = "recv" /\ clean')
                => /\ Len(aisRecords) = MaxRecordsPerFile
                   /\ created = 1
                   /\ files'[currentFile["ingest"]].rows = aisRecords
                   /\ files'[currentFile["ingest"]].footer
                   /\ aisRecords' = <<>>
                   /\ recordCount' = 0 ]_vars

\* C4 witness: the capacity flush of a clean run has written its file and is
\* about to finalise it; the records were taken at different seconds.
C4_Witness ==
    /\ clean
    /\ pc["ingest"] = "save_stop"
    /\ Len(aisRecords) = MaxRecordsPerFile
    /\ aisRecords[1] # aisRecords[Len(aisRecords)]
    /\ created = 1
    /\ files[currentFile["ingest"]].rows = aisRecords

\* A saveToParquet of p returns on an error of one of its I/O steps.
FlushFails(p) == InFlush(p) /\ pc'[p] = Ret(p) /\ faults' = faults + 1

C6_AllOrNothing ==
    \A f \in DOMAIN files :
        ~BeingWritten(f) => files[f].footer /\ files[f].lost = 0

\* The raw bytes of the messages that do not decode.
BadRaws == {m.raw : m \in BadMsgs}

\* C7: a message that does not decode leaves handleAISMessage at once, with
\* the buffer, its count, the mutex and the directory unchanged and no flush
\* started; and no step puts a record of such a message into the buffer or
\* into a file.
C7_DecodeFailureDropsMessage ==
    [][ /\ (pc["ingest"] = "decode" /\ message \in BadMsgs
               /\ pc'["ingest"] # "decode")
              => /\ pc'["ingest"] = "recv"
                 /\ UNCHANGED <<aisRecords, recordCount, mu, files, appended>>
        /\ aisRecords' # aisRecords
              => \A i \in DOMAIN aisRecords' :
                    aisRecords'[i].RawJSON \notin BadRaws
        /\ files' # files
              => \A f \in DOMAIN files' : \A i \in DOMAIN files'[f].rows :
                    files'[f].rows[i].RawJSON \notin BadRaws ]_vars

\* C7 witness: handleAISMessage is decoding a message whose UserID is no
\* number while the buffer holds a record.
C7_Witness ==
    /\ pc["ingest"] = "decode"
    /\ message \in BadMsgs
    /\ message.PositionReport = "object"
    /\ recordCount = MaxRecordsPerFile - 1
    /\ aisRecords # <<>>

\* Order of two date texts, field by field.
TextLess(a, b) ==
    \/ a.y < b.y
    \/ a.y = b.y /\ a.m < b.m
    \/ a.y = b.y /\ a.m = b.m /\ a.d < b.d
TextLeq(a, b) == a = b \/ TextLess(a, b)

\* Both parameters of the request parse.
ValidTexts == ~ParseFails(req.fromStr) /\ ~ParseFails(req.toStr)

\* The partitions whose date prefix is a day of [from, to].
InRange == {f \in DOMAIN files :
               TextLeq(req.fromStr, f.date) /\ TextLeq(f.date, req.toStr)}

\* C8: for valid from <= to, getFilePaths returns exactly the partitions whose
\* date prefix lies in [from, to], each once, in ascending order of file name
\* (day ascending, within a day by time of day).
C8_ResolvedFiles ==
    (req.pc = "done" /\ ValidTexts /\ TextLeq(req.fromStr, req.toStr))
        => /\ {req.files[i] : i \in DOMAIN req.files} = InRange
           /\ Len(req.files) = Cardinality(InRange)
           /\ \A i, j \in DOMAIN req.files :
                 i < j => NameLess(req.files[i], req.files[j])
           /\ (InRange = {}) = (req.files = <<>>)
           /\ req.globs = ParseDate(req.toStr) - ParseDate(req.fromStr) + 1

\* C8 witness: a request over a range across the month boundary resolved
\* three partitions, two of them of the same day.
C8_Witness ==
    /\ req.pc = "done"
    /\ req.fromStr = DateText(2023, 8, 31)
    /\ req.toStr = DateText(2023, 9, 2)
    /\ Len(req.files) = 3
    /\ req.files[1].date = req.files[2].date
    /\ req.files[3].date.m = 9
    /\ Cardinality(DOMAIN files) = 3

\* C9: a request with from later than to ends aborted without one glob.
C9_InvertedRangeNoFilesystem ==
    (req.pc = "done" /\ ValidTexts /\ TextLess(req.toStr, req.fromStr))
        => req.globs = 0 /\ req.files = <<>> /\ req.outcome # "next"

\* C9 witness: such a request has ended while a partition of its from day
\* exists.
C9_Witness ==
    /\ req.pc = "done"
    /\ ValidTexts
    /\ TextLess(req.toStr, req.fromStr)
    /\ \E f \in DOMAIN files : f.date = req.fromStr

\* C10: an unparseable date or from later than to ends in the validation
\* error, and "no data" is given only for a valid range from <= to without
\* partitions.
C10_ValidationDistinctFromNoData ==
    req.pc = "done" =>
        /\ (~ValidTexts \/ TextLess(req.toStr, req.fromStr))
              => req.outcome = "bad_request"
        /\ req.outcome = "not_found"
              => ValidTexts /\ TextLeq(req.fromStr, req.toStr) /\ InRange = {}

\* C11: a request whose resolved file list is empty ends aborted with "no
\* data" and without a handler having run; a handler runs, or has run, only
\* with the resolved, non-empty list stored in the request context.
C11_HandlerNeedsFiles ==
    /\ (req.pc = "done" /\ ValidTexts /\ req.files = <<>>)
          => req.outcome = "not_found" /\ req.handler = "none" /\ ~req.ctxSet
    /\ (req.pc = "handler" \/ req.handler # "none")
          => /\ req.ctxSet
             /\ req.ctxFiles # <<>>
             /\ req.ctxFiles = req.files
             /\ req.outcome = "next"

\* C11 witness: a request for a day without partitions has ended while the
\* directory holds partitions of other days.
C11_Witness ==
    /\ req.pc = "done"
    /\ ValidTexts
    /\ TextLeq(req.fromStr, req.toStr)
    /\ req.files = <<>>
    /\ req.globs > 0
    /\ DOMAIN files # {}

\* C12: when main has returned after a run without I/O failure, every record
\* that was in the buffer when the signal came is a row of a file in the
\* directory.
C12_FinalFlush ==
    (mainpc = "stopped" /\ faults = 0)
        => SeqToBag(atShutdown) \sqsubseteq RowsOf(DOMAIN files)

\* C13: a flush does its I/O without holding the mutex: while saveToParquet
\* creates, writes or finalises its file the mutex is free, so that a
\* handleAISMessage waiting at mu.Lock() can go on and append.
C13_WriteOutsideLock ==
    \A p \in Procs : InFlush(p) => MutexFree

\* C14: a finalised partition is never changed or removed by a later step,
\* whatever the clock second of the later flushes.
C14_PartitionsImmutable ==
    [][ \A f \in DOMAIN files :
          files[f].footer => (f \in DOMAIN files' /\ files'[f] = files[f])
      ]_vars

\* C15: a flush whose target path is already a file in the directory returns
\* on an I/O error from its open step and leaves the directory as it was.
C15_ExistingPathFails ==
    [][ \A p \in Procs :
          (pc[p] = "save_open" /\ pc'[p] # "save_open"
              /\ currentFile[p] \in DOMAIN files)
              => (pc'[p] = Ret(p) /\ faults' = faults + 1 /\ files' = files)
      ]_vars

\* C16: every path a round of getFilePaths adds to its result names a file
\* that is finalised (all rows and the footer written) at the moment of the
\* glob, also while a flush is in progress.
C16_OnlyCompleteFilesVisible ==
    [][ \A i \in DOMAIN req'.files :
          i > Len(req.files) => files[req'.files[i]].footer ]_vars

\* C17: in every reachable state the buffer holds at most MaxRecordsPerFile
\* records, whatever the outcomes of the flushes.
C17_BufferBounded ==
    /\ recordCount <= MaxRecordsPerFile
    /\ Len(aisRecords) <= MaxRecordsPerFile

\* r holds elements of s, in the order they have in s.
RECURSIVE OrderedSubseq(_, _)
OrderedSubseq(r, s) ==
    IF r = <<>> THEN TRUE
    ELSE IF s = <<>> THEN FALSE
    ELSE IF Head(r) = Head(s) /\ OrderedSubseq(Tail(r), Tail(s)) THEN TRUE
    ELSE OrderedSubseq(r, Tail(s))

\* The record carries the payload of message m and the identifier in it.
RecordOf(r, m) ==
    /\ r.RawJSON = m.raw
    /\ m.UserIDType = "number"
    /\ r.MMSI = FormatMMSI(m.UserID)

\* C18: the record built from a message carries its bytes and its
\* identifier; a record enters the buffer only at the tail, in the order of
\* arrival, and the buffer is otherwise only emptied; the write loop of a
\* flush puts the buffered records into the file in buffer order (all of
\* them unless a record write fails), and finalisation leaves the rows as
\* they are; so every row of every file is the record of a valid message
\* of the feed.
C18_ArrivalOrderAndPayload ==
    [][ /\ (pc["ingest"] = "decode" /\ pc'["ingest"] = "lock")
              => (RecordOf(record', message) /\ record'.Timestamp = now)
        /\ aisRecords' # aisRecords
              => \/ pc["ingest"] = "append" /\ aisRecords' = aisRecords \o <<record>>
                 \/ aisRecords' = <<>>
        /\ \A p \in Procs :
              (pc[p] = "save_write" /\ pc'[p] = "save_stop")
                  => LET f == files'[currentFile[p]]
                     IN  /\ OrderedSubseq(f.rows, aisRecords)
                         /\ Len(f.rows) = Len(aisRecords) - f.lost
                         /\ f.lost = 0 => f.rows = aisRecords
        /\ \A p \in Procs :
              (pc[p] = "save_stop" /\ pc'[p] # "save_stop")
                  => files'[currentFile[p]].rows = files[currentFile[p]].rows
        /\ files' # files
              => \A f \in DOMAIN files' : \A i \in DOMAIN files'[f].rows :
                    \E m \in ScenarioMsgs : RecordOf(files'[f].rows[i], m)
      ]_vars

\* C18 witness: both valid messages and the malformed one were fed, the
\* flush wrote a partition of exactly the two valid records in the order of
\* their arrival (second ship first), each with its payload and identifier.
C18_Witness ==
    \E f \in Partitions :
        /\ Len(files[f].rows) = 2
        /\ files[f].rows[1].RawJSON = "b" /\ files[f].rows[1].MMSI = "222222222"
        /\ files[f].rows[2].RawJSON = "a" /\ files[f].rows[2].MMSI = "111111111"
        /\ files[f].lost = 0
        /\ pc["ingest"] = "decode"
        /\ message \in BadMsgs

\* C19: whenever nobody holds the mutex, recordCount is the length of
\* aisRecords.
C19_CountIsLength ==
    mu = "free" => recordCount = Len(aisRecords)

\* C19 witness: the mutex is free after a flush has reset the buffer and a
\* further record was appended and counted, with the timer flush about to
\* take the mutex.
C19_Witness ==
    /\ mu = "free"
    /\ recordCount = 1
    /\ Len(aisRecords) = 1
    /\ Partitions # {}
    /\ pc["ingest"] = "progress"
    /\ pc["sched"] = "save_lock"

\* The partitions whose date prefix is the day `from` of the request.
OfFromDay == {f \in DOMAIN files : f.date = req.fromStr}

C21_CapacityFlushInline ==
    [][ /\ (pc["ingest"] = "capacity" /\ pc'["ingest"] # "capacity")
              => pc'["ingest"] =
                    IF recordCount >= MaxRecordsPerFile THEN "save_lock" ELSE "recv"
        /\ (pc["ingest"] \in FlushPcs \cup {"save_lock"}
               /\ pc'["ingest"] # pc["ingest"])
              => pc'["ingest"] \in FlushPcs \cup {"recv"}
        /\ (aisRecords' # aisRecords /\ aisRecords' # <<>>)
              => pc["ingest"] = "append"
        /\ (pc["ingest"] = "lock" /\ pc'["ingest"] # "lock")
              => pc'["ingest"] = "append" /\ record' = record
        /\ (pc["ingest"] = "append" /\ pc'["ingest"] # "append")
              => aisRecords' = aisRecords \o <<record>>
        /\ (faults' = 0 /\ pc'["ingest"] \in {"recv", "decode", "lock", "append"})
              => recordCount' < MaxRecordsPerFile ]_vars

\* C21 witness: the capacity flush is finalising the file of a full buffer
\* in the ingestion goroutine, with the timer flush waiting for the mutex.
C21_Witness ==
    /\ pc["ingest"] = "save_stop"
    /\ recordCount = MaxRecordsPerFile
    /\ Len(files[currentFile["ingest"]].rows) = MaxRecordsPerFile
    /\ pc["sched"] = "save_lock"
    /\ faults = 0

\* C22: the capacity decision of handleAISMessage (the read of recordCount
\* at line 157) is never taken while the scheduler's saveToParquet is inside
\* its critical section.
C22_CapacityReadSerialized ==
    [][ (pc["ingest"] = "capacity" /\ pc'["ingest"] # "capacity")
            => ~InFlush("sched") ]_vars

\* C23: the progress check reports exactly when the decile of the current
\* fill percentage differs from the decile of the percentage reported last;
\* what it reports is the current percentage; and the decile it reports has
\* not been reported before since the buffer was last reset, also when the
\* timer flush reset the buffer between the append and the check.
C23_OncePerDecile ==
    [][ /\ (pc["ingest"] = "progress" /\ pc'["ingest"] # "progress")
              => LET cur == (recordCount * 100) \div ProgressCap
                     fires == logged' # logged \/ lastLogPercent' # lastLogPercent
                 IN  /\ fires <=> (cur \div 10 # lastLogPercent \div 10)
                     /\ fires => /\ lastLogPercent' = cur
                                 /\ (cur \div 10) \notin logged
                                 /\ logged' = logged \cup {cur \div 10}
        /\ lastLogPercent' # lastLogPercent => pc["ingest"] = "progress"
      ]_vars

\* C23 witness: the decile of 50 to 59 percent was reported for the sixth
\* record and the check is about to run for the seventh, in the same
\* decile, after an earlier generation was flushed by the timer.
C23_Witness ==
    /\ pc["ingest"] = "progress"
    /\ recordCount = 7
    /\ lastLogPercent = 50
    /\ 5 \in logged
    /\ DOMAIN files # {}

\* C24: once runCollector has taken the ctx.Done() branch, no message is
\* handed to handleAISMessage and no record is appended to the buffer.
C24_NoAppendAfterStop ==
    [][ pc["sched"] = "stopped"
            => /\ Len(aisRecords') <= Len(aisRecords)
               /\ ~(pc["ingest"] = "recv" /\ pc'["ingest"] = "decode") ]_vars

\* C25: once the signal has been raised, runCollector returns (done is
\* closed) and main reaches its end.
C25_ShutdownTerminates ==
    ctxDone ~> (pc["sched"] = "stopped" /\ mainpc = "stopped")

\* C25 witness: main has returned after a signal that came while a flush
\* was in progress: the buffer of that moment is in a finalised file.
C25_Witness ==
    /\ mainpc = "stopped"
    /\ pc["sched"] = "stopped"
    /\ atShutdown # <<>>
    /\ \E f \in Partitions : files[f].rows = atShutdown

\* A step of the query path: the request being served changes.
QueryStep == req' # req

\* C26: a step of middlewareDateRange or getFilePaths leaves the mutex, the
\* buffer and the directory as they are; and in every state in which a
\* goroutine holds the mutex (looked at when that goroutine takes its next
\* step), a request that is under way can take its next step.
C26_QueryLeavesBufferAlone ==
    [][ /\ QueryStep => UNCHANGED <<mu, aisRecords, recordCount,
                                    lastLogPercent, files, pc>>
        /\ (mu # "free" /\ pc'[mu] # pc[mu])
              => /\ req.pc = "glob" => ENABLED (ReqGlob \/ ReqFinish)
                 /\ req.pc = "handler"
                       => ENABLED (\E h \in Handlers : ReqHandler(h))
                 /\ req.pc = "done" => ENABLED ReqEnd ]_vars

\* C26 witness: a request has resolved its files and ended while the timer
\* flush holds the mutex and is writing.
C26_Witness ==
    /\ req.pc = "done"
    /\ req.outcome = "next"
    /\ req.globs = 1
    /\ mu = "sched"
    /\ pc["sched"] = "save_write"
    /\ pc["ingest"] = "lock"

\* C27: a goroutine waiting in mu.Lock(), in handleAISMessage or at the
\* start of saveToParquet, gets the mutex, and whoever holds the mutex
\* releases it.
C27_NoMutexDeadlock ==
    /\ (pc["ingest"] = "lock") ~> (pc["ingest"] = "append")
    /\ \A p \in Procs : (pc[p] = "save_lock") ~> (pc[p] # "save_lock")
    /\ (mu # "free") ~> (mu = "free")

\* C27 witness: handleAISMessage waits for the mutex while the timer flush
\* holds it and is about to finalise its file.
C27_Witness ==
    /\ pc["ingest"] = "lock"
    /\ mu = "sched"
    /\ pc["sched"] = "save_stop"

\* The values a record of the mixed feed can have (its clock stays at 0).
ScenarioRecords ==
    {AISRecord(m, 0) : m \in {m \in ScenarioMsgs : Decodes(m)}}

InBuffer(r) == \E i \in DOMAIN aisRecords : aisRecords[i] = r

InPartition(r) ==
    \E f \in Partitions : \E i \in DOMAIN files[f].rows : files[f].rows[i] = r

\* C28: every record in the buffer comes to be a row of a finalised file,
\* unless an I/O step of a flush fails.
C28_EveryRecordFlushed ==
    \A r \in ScenarioRecords : InBuffer(r) ~> (InPartition(r) \/ faults > 0)

\* C28 witness: the timer flush has put both records of a buffer below the
\* threshold into a finalised file, without any I/O failure.
C28_Witness ==
    /\ faults = 0
    /\ aisRecords = <<>>
    /\ pc["sched"] = "wait"
    /\ genWrites = 0
    /\ \E f \in Partitions :
          /\ Len(files[f].rows) = MaxRecordsPerFile - 1
          /\ files[f].rows[1].RawJSON = "b"

====
